---- MODULE Spec2Model ----
(***************************************************************************)
(* ApiService (src/app/api.service.ts): session state kept in the          *)
(* Credential Store and in memory, the cached media list, the requests in  *)
(* flight at the transport, and the mediaUpdates broadcaster.              *)
(*                                                                         *)
(* One action per call of a public method (the request is built from the   *)
(* fields as they are at call time and handed to the transport) and one    *)
(* per continuation the transport runs: the map(...) callback on a success *)
(* payload, the catchError(handleError(...)) callback on a failure.        *)
(* Continuations run to completion (single thread); responses arrive in    *)
(* any order.                                                              *)
(***************************************************************************)
EXTENDS Integers, Sequences, FiniteSets, Bags, TLC

VARIABLES
    storage,            \* Credential Store: key -> value, Null when absent
    currentUser,        \* private currentUser
    authToken,          \* private authToken
    currentMediaList,   \* [def, items]: def = FALSE is JavaScript's undefined
    inflight,           \* bag of requests sent and not yet answered
    evt                 \* what the last step did and delivered (history)

vars == <<storage, currentUser, authToken, currentMediaList, inflight, evt>>

----------------------------------------------------------------------------
(* Bounds *)

MaxInflight == 2        \* requests in flight at once
MaxList == 2            \* addMedia is not called on a cache this long

(* Value domains *)

Users == {"alice", "bob"}
Tokens == {"T1", "T2"}
Ids == {1, 2}
Names == {"A", "B"}
Media == [id : Ids, name : Names]

Null == "null"
Keys == {"jwt", "user"}

Unauthorized == 401
Statuses == {401, 403}

MediaOps == {"getMedia", "addMedia", "updateMedia", "deleteMedia"}

SeqsUpTo(S, n) == UNION {[1..k -> S] : k \in 0..n}

DistinctIds(list) ==
    \A i, j \in 1..Len(list) : list[i].id = list[j].id => i = j

\* The lists a fetch delivers: the server's collection holds one record per id.
FetchLists == {l \in SeqsUpTo(Media, Cardinality(Ids)) : DistinctIds(l)}

Undefined == [def |-> FALSE, items |-> <<>>]
Defined(list) == [def |-> TRUE, items |-> list]

----------------------------------------------------------------------------
(* Transport: requests, failures *)
(* Record constructors list their fields in the order in which the names   *)
(* first occur in this module, the order TLC keeps records in.             *)

\* A request as sent: the username of the body or of the url, the token of the
\* Authorization header, the id of the record in a delete's body.
Req(op, user, token, id) == [id |-> id, op |-> op, user |-> user, token |-> token]

\* What the transport holds of a request until it answers.  The continuations
\* read the username (login), the url's user and the record's id (delete) of
\* their own call; the header is sent and not read again.
Pending(r) == [id |-> r.id, op |-> r.op, user |-> r.user]

message(status) == IF status = 401 THEN "unauthorized" ELSE "bad credentials"

\* A transport failure {status, message}: error.error.message is defined.
Failure(status) == [message |-> message(status), status |-> status, hasBody |-> TRUE]
Failures == {Failure(s) : s \in Statuses}

\* A TypeError thrown inside a map(...) callback: it has no .error and no .status.
TypeError == [message |-> "", status |-> 0, hasBody |-> FALSE]

(* Outcomes delivered to the caller's subscriber *)

NoOutcome == [kind |-> "none", str |-> "", data |-> <<>>]
Str(s) == [kind |-> "string", str |-> s, data |-> <<>>]
OneMedia(m) == [kind |-> "media", str |-> "", data |-> <<m>>]
MediaList(l) == [kind |-> "list", str |-> "", data |-> l]
\* an update's response.data handed back as received: kind is its shape
\* ("object" with the one record in data, or "array")
Payload(d) == [kind |-> d.shape, str |-> "", data |-> d.items]
\* the observable errors: the subscriber's error channel, no value
Unhandled == [kind |-> "unhandled", str |-> "", data |-> <<>>]

----------------------------------------------------------------------------
(* Credential Store *)

get(st, key) == st[key]
set(st, key, value) == [st EXCEPT ![key] = value]
remove(st, key) == [st EXCEPT ![key] = Null]

loggedIn(st) == get(st, "jwt") # Null /\ get(st, "user") # Null

(* Session: the three fields the handlers write together *)

Session == [storage |-> storage, currentUser |-> currentUser, authToken |-> authToken]

SetSession(s) ==
    /\ storage' = s.storage
    /\ currentUser' = s.currentUser
    /\ authToken' = s.authToken

constructor(st) ==
    IF loggedIn(st)
    THEN [storage |-> st, currentUser |-> get(st, "user"), authToken |-> get(st, "jwt")]
    ELSE [storage |-> st, currentUser |-> "", authToken |-> ""]

\* mutant: the username is not persisted
loginSuccessUserNotStored(s, username, auth_token) ==
    [storage |-> set(s.storage, "jwt", auth_token),
     currentUser |-> username,
     authToken |-> auth_token]

loginSuccess(s, username, auth_token) ==
    [storage |-> set(set(s.storage, "jwt", auth_token), "user", username),
     currentUser |-> username,
     authToken |-> auth_token]

\* mutant: login passes no callback to handleError
loginErrorCallbackMissing(s) == s

loginErrorCallback(s) ==
    [storage |-> remove(remove(s.storage, "jwt"), "user"),
     currentUser |-> "",
     authToken |-> ""]

\* mutant: the keys are removed, the two fields keep the old session
logoutSuccessKeepsFields(s) ==
    [storage |-> remove(remove(s.storage, "jwt"), "user"),
     currentUser |-> s.currentUser,
     authToken |-> s.authToken]

logoutSuccess(s) ==
    [storage |-> remove(remove(s.storage, "jwt"), "user"),
     currentUser |-> "",
     authToken |-> ""]

\* mutant: logout passes no callback to handleError
logoutErrorCallbackMissing(s) == s

logoutErrorCallback(s) ==
    [storage |-> remove(remove(s.storage, "jwt"), "user"),
     currentUser |-> "",
     authToken |-> ""]

\* mutant: a 401 clears the in-memory fields and leaves the store alone
forcedLogoutMemoryOnly(s) ==
    [storage |-> s.storage,
     currentUser |-> "",
     authToken |-> ""]

forcedLogout(s) ==
    [storage |-> remove(remove(s.storage, "jwt"), "user"),
     currentUser |-> "",
     authToken |-> ""]

callbackForAll(operation, s) == loginErrorCallback(s)

\* the optional callback each operation hands to handleError
callback(operation, s) ==
    CASE operation = "login" -> loginErrorCallback(s)
      [] operation = "logout" -> logoutErrorCallback(s)
      [] OTHER -> s

\* handleError(operation, callback)(error): the callback runs first; reading
\* error.error.message of an error without .error throws, and then neither the
\* status test nor the return is reached.
handleError(operation, error, s) ==
    LET s1 == callback(operation, s)
    IN  IF ~error.hasBody
        THEN [session |-> s1, outcome |-> Unhandled]
        ELSE [session |-> IF error.status = Unauthorized THEN forcedLogout(s1) ELSE s1,
              outcome |-> Str(error.message)]

----------------------------------------------------------------------------
(* Media Cache: the map(...) callbacks' effect on currentMediaList.        *)
(* Each yields [threw, list, emitted]: threw when a method is called on    *)
(* undefined (or a non-iterable is iterated); emitted is the sequence of   *)
(* values passed to mediaUpdates.next; inPlace tells that the array the    *)
(* cache already referred to was modified itself (unshift), where map and  *)
(* filter build a new array and a fetch brings its own.                    *)

Threw(cache) == [list |-> cache, threw |-> TRUE, emitted |-> <<>>, inPlace |-> FALSE]
Done(cache) == [list |-> cache, threw |-> FALSE, emitted |-> <<cache>>, inPlace |-> FALSE]
DoneInPlace(cache) == [Done(cache) EXCEPT !.inPlace = TRUE]

getMediaSuccess(cache, data) == Done(Defined(data))

unshiftAtEnd(list, m) == list \o <<m>>

unshift(list, m) == <<m>> \o list

addMediaSuccess(cache, data) ==
    IF ~cache.def THEN Threw(cache)
    ELSE DoneInPlace(Defined(unshift(cache.items, data)))

replaceByIdEverywhere(list, m) == [i \in 1..Len(list) |-> m]

replaceById(list, m) ==
    [i \in 1..Len(list) |-> IF list[i].id = m.id THEN m ELSE list[i]]

RECURSIVE replaceEach(_, _)
replaceEach(list, responseMedia) ==
    IF responseMedia = <<>> THEN list
    ELSE replaceEach(replaceById(list, Head(responseMedia)), Tail(responseMedia))

\* A response's data: shape "array", or shape "object" (one record in items);
\* isMedia tells whether `data instanceof Media` holds (a payload parsed from
\* JSON is a plain object; only a hand-built response is a Media instance).
\* forOfThrows: iterating a plain object with for..of throws (iterator
\* protocol) or runs zero times (indexed loop emitted for an ES5 target).
updateMediaSuccess(cache, data, forOfThrows) ==
    IF data.shape = "object" /\ data.isMedia
    THEN IF ~cache.def THEN Threw(cache)
         ELSE Done(Defined(replaceById(cache.items, data.items[1])))
    ELSE IF data.shape = "object"
    THEN IF forOfThrows THEN Threw(cache) ELSE Done(cache)
    ELSE IF data.items # <<>> /\ ~cache.def THEN Threw(cache)
    ELSE IF ~cache.def THEN Done(cache)
    ELSE Done(Defined(replaceEach(cache.items, data.items)))

filterOutOthers(list, id) == SelectSeq(list, LAMBDA mediaElement : mediaElement.id = id)

filterOut(list, id) == SelectSeq(list, LAMBDA mediaElement : mediaElement.id # id)

deleteMediaSuccess(cache, id) ==
    IF ~cache.def THEN Threw(cache)
    ELSE Done(Defined(filterOut(cache.items, id)))

UpdateData ==
    {[items |-> <<m>>, shape |-> "object", isMedia |-> b] : b \in BOOLEAN, m \in Media}
    \cup {[items |-> l, shape |-> "array", isMedia |-> FALSE] : l \in FetchLists}

----------------------------------------------------------------------------
(* History record of a step *)

NoPending == [id |-> 0, op |-> "none", user |-> ""]

Evt(op, kind, resp, status, req, outcome, emitted, issued) ==
    [op |-> op,             \* the operation the step belongs to
     status |-> status,     \* the failure's status, 0 otherwise
     kind |-> kind,         \* "init", "call", "return" (no request), "response"
     auth_token |-> "",     \* the token of a login's success payload
     outcome |-> outcome,   \* what the caller's subscriber received
     emitted |-> emitted,   \* values passed to mediaUpdates.next in this step
     resp |-> resp,         \* "none", "ok" (success payload), "error" (failure)
     req |-> req,           \* the pending request answered, NoPending otherwise
     issued |-> issued,     \* requests handed to the transport in this step
     was |-> loggedIn(storage),     \* loggedIn() before the step
     prevUser |-> currentUser,      \* currentUser before the step
     mutated |-> FALSE]     \* an array handed out earlier changed its contents

Send(r) == inflight' = inflight (+) SetToBag({Pending(r)})
AnswerDroppingOthers(r) == inflight' = EmptyBag

Answer(r) == inflight' = inflight (-) SetToBag({r})
Room == BagCardinality(inflight) < MaxInflight

----------------------------------------------------------------------------
Init ==
    /\ \E st \in [Keys -> Tokens \cup Users \cup {Null}] :
          /\ st["jwt"] \in Tokens \cup {Null}
          /\ st["user"] \in Users \cup {Null}
          /\ (st["jwt"] = Null) <=> (st["user"] = Null)
          /\ storage = constructor(st).storage
          /\ currentUser = constructor(st).currentUser
          /\ authToken = constructor(st).authToken
    /\ currentMediaList = Undefined
    /\ inflight = EmptyBag
    /\ evt = [Evt("constructor", "init", "none", 0, NoPending, NoOutcome, <<>>, <<>>)
                EXCEPT !.was = FALSE, !.prevUser = ""]

(* Calls *)

Call(r) ==
    /\ Room
    /\ Send(r)
    /\ evt' = Evt(r.op, "call", "none", 0, NoPending, NoOutcome, <<>>, <<r>>)
    /\ UNCHANGED <<storage, currentUser, authToken, currentMediaList>>

register(username) == Call(Req("register", username, "", 0))

login(username) == Call(Req("login", username, "", 0))

\* mutant: no short-circuit, the request is always sent
logoutAlwaysSends == Call(Req("logout", "", authToken, 0))

logout ==
    IF ~loggedIn(storage)
    THEN /\ evt' = Evt("logout", "return", "none", 0, NoPending, Str("not logged in"),
                     <<>>, <<>>)
         /\ UNCHANGED <<storage, currentUser, authToken, currentMediaList, inflight>>
    ELSE Call(Req("logout", "", authToken, 0))

\* The cache operations are called by a logged-in application only.
getMedia == loggedIn(storage) /\ Call(Req("getMedia", currentUser, authToken, 0))

addMedia ==
    /\ loggedIn(storage)
    /\ currentMediaList.def => Len(currentMediaList.items) < MaxList
    /\ Call(Req("addMedia", currentUser, authToken, 0))

updateMedia == loggedIn(storage) /\ Call(Req("updateMedia", currentUser, authToken, 0))

deleteMedia(id) == loggedIn(storage) /\ Call(Req("deleteMedia", currentUser, authToken, id))

(* Continuations *)

\* mutant: a failure drops the cache and publishes the empty list
CaughtDroppingCache(r, resp, error) ==
    LET h == handleError(r.op, error, Session)
    IN  /\ SetSession(h.session)
        /\ evt' = Evt(r.op, "response", resp, error.status, r, h.outcome,
                      <<Defined(<<>>)>>, <<>>)
        /\ currentMediaList' = Defined(<<>>)

\* catchError(handleError(operation, callback)) for request r and error
Caught(r, resp, error) ==
    LET h == handleError(r.op, error, Session)
    IN  /\ SetSession(h.session)
        /\ evt' = Evt(r.op, "response", resp, error.status, r, h.outcome, <<>>, <<>>)
        /\ UNCHANGED currentMediaList

Fail(op) ==
    \E r \in BagToSet(inflight), error \in Failures :
        /\ r.op = op
        /\ Answer(r)
        /\ Caught(r, "error", error)

\* mutant: a successful registration logs the new user in, as login does
registerOkEstablishesSession ==
    \E r \in BagToSet(inflight), auth_token \in Tokens :
        /\ r.op = "register"
        /\ Answer(r)
        /\ SetSession(loginSuccess(Session, r.user, auth_token))
        /\ evt' = Evt(r.op, "response", "ok", 0, r, Str("success"), <<>>, <<>>)
        /\ UNCHANGED currentMediaList

registerOk ==
    \E r \in BagToSet(inflight) :
        /\ r.op = "register"
        /\ Answer(r)
        /\ evt' = Evt(r.op, "response", "ok", 0, r, Str("success"), <<>>, <<>>)
        /\ UNCHANGED <<storage, currentUser, authToken, currentMediaList>>

loginOk ==
    \E r \in BagToSet(inflight), auth_token \in Tokens :
        LET s == loginSuccess(Session, r.user, auth_token)
            fetch == Req("getMedia", s.currentUser, s.authToken, 0)
        IN  /\ r.op = "login"
            /\ SetSession(s)
            /\ inflight' = (inflight (-) SetToBag({r})) (+) SetToBag({Pending(fetch)})
            /\ evt' = [Evt(r.op, "response", "ok", 0, r, Str("success"), <<>>, <<fetch>>)
                         EXCEPT !.auth_token = auth_token]
            /\ UNCHANGED currentMediaList

logoutOk ==
    \E r \in BagToSet(inflight) :
        /\ r.op = "logout"
        /\ Answer(r)
        /\ SetSession(logoutSuccess(Session))
        /\ evt' = Evt(r.op, "response", "ok", 0, r, Str("success"), <<>>, <<>>)
        /\ UNCHANGED currentMediaList

\* the map(...) callback of a cache operation ran with result c
Mapped(r, c, value) ==
    /\ Answer(r)
    /\ IF c.threw
       THEN Caught(r, "ok", TypeError)
       ELSE /\ currentMediaList' = c.list
            /\ evt' = [Evt(r.op, "response", "ok", 0, r, value, c.emitted, <<>>)
                         EXCEPT !.mutated = c.inPlace]
            /\ UNCHANGED <<storage, currentUser, authToken>>

getMediaOk ==
    \E r \in BagToSet(inflight), data \in FetchLists :
        /\ r.op = "getMedia"
        /\ Mapped(r, getMediaSuccess(currentMediaList, data), MediaList(data))

addMediaOk ==
    \E r \in BagToSet(inflight), data \in Media :
        /\ r.op = "addMedia"
        /\ Mapped(r, addMediaSuccess(currentMediaList, data), OneMedia(data))

updateMediaOk ==
    \E r \in BagToSet(inflight), data \in UpdateData, forOfThrows \in BOOLEAN :
        /\ r.op = "updateMedia"
        /\ Mapped(r, updateMediaSuccess(currentMediaList, data, forOfThrows),
                  Payload(data))

deleteMediaOk ==
    \E r \in BagToSet(inflight) :
        /\ r.op = "deleteMedia"
        /\ Mapped(r, deleteMediaSuccess(currentMediaList, r.id), Str("success"))

registerFail == Fail("register")
loginFail == Fail("login")
logoutFail == Fail("logout")
getMediaFail == Fail("getMedia")
addMediaFail == Fail("addMedia")
updateMediaFail == Fail("updateMedia")
deleteMediaFail == Fail("deleteMedia")

Next ==
    \/ \E username \in Users : register(username)
    \/ \E username \in Users : login(username)
    \/ logout
    \/ getMedia
    \/ addMedia
    \/ updateMedia
    \/ \E id \in Ids : deleteMedia(id)
    \/ registerOk
    \/ loginOk
    \/ logoutOk
    \/ getMediaOk
    \/ addMediaOk
    \/ updateMediaOk
    \/ deleteMediaOk
    \/ registerFail
    \/ loginFail
    \/ logoutFail
    \/ getMediaFail
    \/ addMediaFail
    \/ updateMediaFail
    \/ deleteMediaFail

Spec == Init /\ [][Next]_vars

----------------------------------------------------------------------------
(* Properties *)

Cleared ==
    /\ ~loggedIn(storage)
    /\ get(storage, "jwt") = Null
    /\ get(storage, "user") = Null
    /\ currentUser = ""
    /\ authToken = ""

Answered(op, resp) == evt.kind = "response" /\ evt.op = op /\ evt.resp = resp

CacheAnswered(resp) == evt.kind = "response" /\ evt.op \in MediaOps /\ evt.resp = resp

\* C1: the cache never holds two records with the same id (fetches deliver
\* pairwise distinct ids; add, update and delete responses are arbitrary).
C1_NoDuplicateIds ==
    currentMediaList.def => DistinctIds(currentMediaList.items)

\* C2: every operation whose transport call completed delivered an Outcome (a
\* success value or a message string) to its caller, never an unhandled error.
C2_AlwaysAnOutcome ==
    evt.kind = "response" => evt.outcome.kind \in {"string", "media", "list", "object", "array"}

\* C3: after a 401 failure of getMedia, addMedia, updateMedia or deleteMedia
\* loggedIn() is false, both keys are gone from the store and currentUser and
\* authToken are empty.
C3_UnauthorizedForcesLogout ==
    (CacheAnswered("error") /\ evt.status = 401) => Cleared

C3_Witness ==
    /\ CacheAnswered("error")
    /\ evt.status = 401
    /\ evt.was
    /\ ~loggedIn(storage)

\* C4: once a logout has completed (either way), or a 401 has forced the
\* logout, or a login as another user has succeeded, the cache is empty or
\* undefined.
C4_CacheResetWithSession ==
    (\/ evt.kind = "response" /\ evt.op = "logout" /\ evt.was
     \/ evt.kind = "response" /\ evt.resp = "error" /\ evt.status = 401 /\ evt.was
     \/ Answered("login", "ok") /\ evt.was /\ evt.prevUser # currentUser)
    => (~currentMediaList.def \/ currentMediaList.items = <<>>)

\* C5: a successful getMedia, addMedia, updateMedia or deleteMedia response
\* makes mediaUpdates emit exactly one value, the cache as it is after the
\* update.
C5_OneEmissionPerSuccess ==
    CacheAnswered("ok") => evt.emitted = <<currentMediaList>>

\* C6: a rejected getMedia, addMedia, updateMedia or deleteMedia leaves the
\* cache as it was and emits nothing; the cache changes only in the success
\* continuation of a cache request.
C6_FailureLeavesCache ==
    [][/\ (evt'.kind = "response" /\ evt'.op \in MediaOps /\ evt'.resp = "error")
          => (currentMediaList' = currentMediaList /\ evt'.emitted = <<>>)
       /\ (currentMediaList' # currentMediaList)
          => (evt'.kind = "response" /\ evt'.op \in MediaOps /\ evt'.resp = "ok")]_vars

C6_Witness ==
    /\ CacheAnswered("error")
    /\ currentMediaList.def
    /\ currentMediaList.items # <<>>
    /\ evt.emitted = <<>>

\* C7: after a failed login, whatever its status and whatever the session was
\* before, loggedIn() is false, the store holds neither key, currentUser and
\* authToken are empty, and the caller received the failure's message.
C7_FailedLoginClears ==
    Answered("login", "error") =>
        /\ Cleared
        /\ evt.outcome = Str(message(evt.status))

C7_Witness ==
    /\ Answered("login", "error")
    /\ evt.status = 403
    /\ evt.was
    /\ ~loggedIn(storage)

\* C8: a login that succeeded with token T for username U has stored jwt = T
\* and user = U, set authToken = T and currentUser = U, made loggedIn() true,
\* issued exactly one getMedia request carrying U and T, and delivered
\* 'success' while that fetch is still in flight (nothing emitted yet).
C8_LoginEstablishesSession ==
    Answered("login", "ok") =>
        LET U == evt.req.user
            T == evt.auth_token
        IN  /\ get(storage, "jwt") = T
            /\ get(storage, "user") = U
            /\ authToken = T
            /\ currentUser = U
            /\ loggedIn(storage)
            /\ evt.issued = <<Req("getMedia", U, T, 0)>>
            /\ BagIn(Pending(Req("getMedia", U, T, 0)), inflight)
            /\ evt.outcome = Str("success")
            /\ evt.emitted = <<>>

\* a login as another user succeeded while a session was active
C8_Witness ==
    /\ Answered("login", "ok")
    /\ evt.was
    /\ evt.prevUser = "alice"
    /\ currentUser = "bob"
    /\ evt.auth_token = "T2"
    /\ loggedIn(storage)

\* C9: logout called while loggedIn() is true sends one request carrying the
\* current token; once that request is answered, with success or any failure,
\* loggedIn() is false, the store holds neither key and currentUser and
\* authToken are empty.
C9_LogoutAlwaysClears ==
    /\ (evt.op = "logout" /\ evt.kind \in {"call", "return"} /\ evt.was) =>
           /\ evt.kind = "call"
           /\ evt.issued = <<Req("logout", "", authToken, 0)>>
    /\ (evt.op = "logout" /\ evt.kind = "response") => Cleared

C9_Witness ==
    /\ Answered("logout", "error")
    /\ evt.status = 403
    /\ evt.was
    /\ ~loggedIn(storage)

\* C10: logout called while loggedIn() is false returns 'not logged in', sends
\* no request and changes neither the store, the in-memory session fields nor
\* the cache.
C10_LogoutShortCircuit ==
    [][(~loggedIn(storage) /\ evt'.op = "logout" /\ evt'.kind \in {"call", "return"})
       => /\ evt'.kind = "return"
          /\ evt'.outcome = Str("not logged in")
          /\ evt'.issued = <<>>
          /\ UNCHANGED <<storage, currentUser, authToken, currentMediaList, inflight>>]_vars

\* a logout returned without a request after an earlier session had filled the cache
C10_Witness ==
    /\ evt.op = "logout"
    /\ evt.kind = "return"
    /\ ~evt.was
    /\ currentMediaList.def
    /\ currentMediaList.items # <<>>

\* C11: loggedIn() goes from false to true only in the success continuation of
\* a login, and from true to false only when a logout completes (any outcome),
\* a login fails, or a request of any kind fails with status 401; no call, no
\* other success and no other failure changes it.
C11_SessionStateMachine ==
    [][ /\ (~loggedIn(storage) /\ loggedIn(storage')) =>
               /\ evt'.kind = "response"
               /\ evt'.op = "login"
               /\ evt'.resp = "ok"
        /\ (loggedIn(storage) /\ ~loggedIn(storage')) =>
               /\ evt'.kind = "response"
               /\ \/ evt'.op = "logout"
                  \/ evt'.op = "login" /\ evt'.resp = "error"
                  \/ evt'.resp = "error" /\ evt'.status = Unauthorized ]_vars

\* a getMedia request of a logged-in user failed with 403 and the session stayed
C11_Witness ==
    /\ Answered("getMedia", "error")
    /\ evt.status = 403
    /\ evt.was
    /\ loggedIn(storage)

\* C12: a successful addMedia whose response carries the record r, arriving on
\* a cache that holds the sequence L, leaves the cache r followed by L in its
\* previous order, and r is the value handed to the caller.
C12_AddPrepends ==
    [][ (/\ evt'.kind = "response"
         /\ evt'.op = "addMedia"
         /\ evt'.resp = "ok"
         /\ currentMediaList.def) =>
            /\ evt'.outcome.kind = "media"
            /\ Len(evt'.outcome.data) = 1
            /\ currentMediaList'.def
            /\ Head(currentMediaList'.items) = evt'.outcome.data[1]
            /\ Tail(currentMediaList'.items) = currentMediaList.items ]_vars

\* the scenario fetch [id 1], add id 2: the cache is [id 2, id 1] and the
\* caller received the record with id 2
C12_Witness ==
    /\ Answered("addMedia", "ok")
    /\ evt.outcome = OneMedia([id |-> 2, name |-> "B"])
    /\ currentMediaList = Defined(<<[id |-> 2, name |-> "B"], [id |-> 1, name |-> "A"]>>)

\* the entries of list whose id differs from id, by position
Kept(list, id) == {i \in 1..Len(list) : list[i].id # id}

\* C13: a successful deleteMedia(record) leaves the cache without any entry
\* whose id is record.id and with every other entry, in the former relative
\* order; a cache without that id keeps its contents, and the request is sent
\* whether or not the id is cached.
C13_DeleteRemovesById ==
    [][ /\ (/\ evt'.kind = "response"
            /\ evt'.op = "deleteMedia"
            /\ evt'.resp = "ok"
            /\ currentMediaList.def) =>
               LET old == currentMediaList.items
                   new == currentMediaList'.items
                   kept == Kept(old, evt'.req.id)
               IN  /\ evt'.outcome = Str("success")
                   /\ currentMediaList'.def
                   /\ Len(new) = Cardinality(kept)
                   /\ \A i \in kept : new[Cardinality({j \in kept : j <= i})] = old[i]
                   /\ (kept = 1..Len(old)) => new = old
        /\ (evt'.kind = "call" /\ evt'.op = "deleteMedia") =>
               /\ Len(evt'.issued) = 1
               /\ evt'.issued[1].op = "deleteMedia"
               /\ BagCardinality(inflight') = BagCardinality(inflight) + 1 ]_vars

\* a delete of id 1 succeeded and left a cache that still holds a record of id 2
C13_Witness ==
    /\ Answered("deleteMedia", "ok")
    /\ evt.req.id = 1
    /\ evt.emitted = <<currentMediaList>>
    /\ currentMediaList.def
    /\ \E i \in 1..Len(currentMediaList.items) : currentMediaList.items[i].id = 2

\* C14 (as claimed): a successful updateMedia whose response data is a single
\* record r leaves the cache with r at the position of the entry whose id is
\* r.id and every other entry as it was, at the same position. A record parsed
\* from the response body is not an instance of Media, and the claim fails for it.
C14_SingleRecordReplaced ==
    [][ (/\ evt'.kind = "response"
         /\ evt'.op = "updateMedia"
         /\ evt'.resp = "ok"
         /\ evt'.outcome.kind = "object"
         /\ currentMediaList.def) =>
            LET r == evt'.outcome.data[1]
                old == currentMediaList.items
                new == currentMediaList'.items
            IN  /\ currentMediaList'.def
                /\ Len(new) = Len(old)
                /\ \A i \in 1..Len(old) :
                       new[i] = IF old[i].id = r.id THEN r ELSE old[i] ]_vars

\* C15: a successful updateMedia leaves the cache's length and its sequence of
\* ids as they were; with a list response, every cache entry whose id occurs in
\* the response becomes the returned record of that id, every other entry is
\* untouched, and returned records of uncached ids are dropped.
C15_ListUpdateKeepsShape ==
    [][ (/\ evt'.kind = "response"
         /\ evt'.op = "updateMedia"
         /\ evt'.resp = "ok"
         /\ currentMediaList.def) =>
            LET data == evt'.outcome.data
                old == currentMediaList.items
                new == currentMediaList'.items
            IN  /\ currentMediaList'.def
                /\ Len(new) = Len(old)
                /\ \A i \in 1..Len(old) : new[i].id = old[i].id
                /\ evt'.outcome.kind = "array" =>
                       \A i \in 1..Len(old) :
                           LET hits == {j \in 1..Len(data) : data[j].id = old[i].id}
                           IN  IF hits = {} THEN new[i] = old[i]
                               ELSE \E j \in hits : new[i] = data[j] ]_vars

\* a list response with records of ids 1 and 2 was applied to a cache that
\* holds id 1 only: the cache holds the returned record of id 1 and nothing else
C15_Witness ==
    /\ Answered("updateMedia", "ok")
    /\ evt.outcome.kind = "array"
    /\ evt.outcome.data = <<[id |-> 2, name |-> "A"], [id |-> 1, name |-> "B"]>>
    /\ currentMediaList = Defined(<<[id |-> 1, name |-> "B"]>>)
    /\ evt.emitted = <<currentMediaList>>

\* C16: a successful register hands 'success' to the caller and leaves the
\* Credential Store, currentUser, authToken, the cache and loggedIn() as they
\* were; it starts no fetch and publishes nothing.
C16_RegisterEstablishesNothing ==
    [][ (/\ evt'.kind = "response"
         /\ evt'.op = "register"
         /\ evt'.resp = "ok") =>
            /\ evt'.outcome = Str("success")
            /\ storage' = storage
            /\ currentUser' = currentUser
            /\ authToken' = authToken
            /\ currentMediaList' = currentMediaList
            /\ loggedIn(storage') = loggedIn(storage)
            /\ evt'.issued = <<>>
            /\ evt'.emitted = <<>>
            /\ inflight' = inflight (-) SetToBag({evt'.req}) ]_vars

\* bob's registration succeeded while nobody is logged in, and nothing is in flight
C16_Witness ==
    /\ Answered("register", "ok")
    /\ evt.req.user = "bob"
    /\ evt.outcome = Str("success")
    /\ ~loggedIn(storage)
    /\ currentUser = ""
    /\ inflight = EmptyBag

\* C17 (as claimed): the cache represents the active session: a response that
\* is applied to the cache while a user is logged in answers a request that
\* was issued under that user's session, never one issued under an earlier one.
C17_CacheOfActiveSession ==
    (/\ CacheAnswered("ok")
     /\ evt.emitted # <<>>
     /\ loggedIn(storage)) => evt.req.user = currentUser

\* what one successful response does to the cache contents old it arrives on,
\* giving new: out is the value handed to the caller, id the id a delete names
Effect(op, id, out, old, new) ==
    CASE op = "getMedia" -> new = out.data
      [] op = "addMedia" -> new = <<out.data[1]>> \o old
      [] op = "deleteMedia" ->
            /\ Len(new) = Cardinality(Kept(old, id))
            /\ \A i \in Kept(old, id) :
                   new[Cardinality({j \in Kept(old, id) : j <= i})] = old[i]
      [] op = "updateMedia" ->
            /\ Len(new) = Len(old)
            /\ \A i \in 1..Len(old) :
                   \/ new[i] = old[i]
                   \/ \E j \in 1..Len(out.data) :
                          out.data[j].id = old[i].id /\ new[i] = out.data[j]

\* C18: with several cache requests in flight, each success continuation is one
\* step applied to the cache as it is when the response arrives, whatever the
\* order of the calls: it leaves the other requests in flight, to be applied
\* when their own responses arrive, and a continuation that throws changes
\* nothing; so the cache is the successful responses applied one after the
\* other in arrival order.
C18_AppliedInArrivalOrder ==
    [][ (/\ evt'.kind = "response"
         /\ evt'.op \in MediaOps
         /\ evt'.resp = "ok") =>
            /\ inflight' = inflight (-) SetToBag({evt'.req})
            /\ IF evt'.outcome = Unhandled
               THEN currentMediaList' = currentMediaList
               ELSE /\ currentMediaList'.def = (currentMediaList.def \/ evt'.op = "getMedia")
                    /\ Effect(evt'.op, evt'.req.id, evt'.outcome,
                              currentMediaList.items, currentMediaList'.items) ]_vars

\* a delete was applied to the cache while an add is still in flight
C18_Witness ==
    /\ Answered("deleteMedia", "ok")
    /\ evt.emitted = <<currentMediaList>>
    /\ currentMediaList.def
    /\ \E p \in BagToSet(inflight) : p.op = "addMedia"

\* C19: starting from a store that holds both keys or neither, 'jwt' is present
\* exactly when 'user' is; when they are present authToken and currentUser are
\* the stored values, otherwise both are ""; so a request that carries
\* credentials carries the token and the user name the store holds at the call.
C19_FieldsMirrorStore ==
    /\ (get(storage, "jwt") = Null) <=> (get(storage, "user") = Null)
    /\ IF loggedIn(storage)
       THEN authToken = get(storage, "jwt") /\ currentUser = get(storage, "user")
       ELSE authToken = "" /\ currentUser = ""
    /\ (evt.kind = "call" /\ evt.op \in MediaOps \cup {"logout"}) =>
           /\ evt.issued[1].token = get(storage, "jwt")
           /\ evt.op \in MediaOps => evt.issued[1].user = get(storage, "user")

\* bob's session is in the store and the addMedia just called carries his token
\* and name
C19_Witness ==
    /\ evt.kind = "call"
    /\ evt.op = "addMedia"
    /\ evt.issued[1].token = "T2"
    /\ evt.issued[1].user = "bob"
    /\ get(storage, "jwt") = "T2"
    /\ get(storage, "user") = "bob"
    /\ authToken = "T2"
    /\ currentUser = "bob"

\* C20 (as claimed): a collection handed to the subscribers of mediaUpdates or
\* returned by getMedia is a snapshot: no later successful addMedia,
\* updateMedia or deleteMedia changes the contents of an array handed out
\* earlier. (A defined cache always refers to an array that was handed out:
\* the one a fetch returned and published, or the one the last update or
\* delete built and published.)
C20_DeliveredIsSnapshot ==
    (/\ evt.kind = "response"
     /\ evt.op \in {"addMedia", "updateMedia", "deleteMedia"}
     /\ evt.resp = "ok") => ~evt.mutated

====
